---- MODULE Spec2Model ----
(***************************************************************************)
(* Model of the image-generation orchestrator (scripts/gemini_image.py)    *)
(* and of the text-overlay stage it drives (scripts/text_overlay.py).      *)
(*                                                                         *)
(* One behaviour is one call of a public operation of                      *)
(* GeminiImageGenerator: generate_image, generate_with_text_overlay,       *)
(* generate_batch or generate_batch_with_text_overlay.  A step is what the *)
(* event loop runs between two suspension points (await) of one task.      *)
(***************************************************************************)
EXTENDS Integers, Sequences, FiniteSets, TLC

(* ---------------------------- bounds ----------------------------------- *)
MaxBatch == 2
MaxLimit == 2
MaxRetryCount == 3
MaxTotal == 9
MaxTokens == 4
MaxHexLen == 8
MaxLines == 3
MaxPromptTokens == 3
MaxTextLen == 5
MaxCanvasWidth == 5
MaxFontSize == 60
MaxHints == 2

(* ---------------------- program constants ------------------------------ *)
RATE_LIMIT_DELAY == 6
NumTiers == 3
DEFAULT_RETRY_COUNT == 3

(* ------------------------ characters and text -------------------------- *)
LowerOf ==
  [c \in {"A", "B", "C", "D", "E", "F", "G", "H", "I", "J", "K", "L", "M",
          "N", "O", "P", "Q", "R", "S", "T", "U", "V", "W", "X", "Y", "Z"} |->
     CASE c = "A" -> "a" [] c = "B" -> "b" [] c = "C" -> "c" [] c = "D" -> "d"
       [] c = "E" -> "e" [] c = "F" -> "f" [] c = "G" -> "g" [] c = "H" -> "h"
       [] c = "I" -> "i" [] c = "J" -> "j" [] c = "K" -> "k" [] c = "L" -> "l"
       [] c = "M" -> "m" [] c = "N" -> "n" [] c = "O" -> "o" [] c = "P" -> "p"
       [] c = "Q" -> "q" [] c = "R" -> "r" [] c = "S" -> "s" [] c = "T" -> "t"
       [] c = "U" -> "u" [] c = "V" -> "v" [] c = "W" -> "w" [] c = "X" -> "x"
       [] c = "Y" -> "y" [] c = "Z" -> "z"]

\* str.lower() on a sequence of characters
Lower(s) == [i \in 1..Len(s) |-> IF s[i] \in DOMAIN LowerOf THEN LowerOf[s[i]] ELSE s[i]]

\* the Python test `sub in s`
Contains(s, sub) ==
  \E i \in 0..(Len(s) - Len(sub)) : \A j \in 1..Len(sub) : s[i + j] = sub[j]

\* the messages a backend call can raise with, as str(e), and the messages
\* the code itself puts in a failure result
MsgText ==
  [ rate_limit |-> <<"4", "2", "9", " ", "R", "E", "S", "O", "U", "R", "C", "E">>,
    blocked    |-> <<"C", "o", "n", "t", "e", "n", "t", " ", "B", "L", "O", "C", "K", "E", "D">>,
    network    |-> <<"C", "o", "n", "n", "e", "c", "t", "i", "o", "n", " ", "r", "e", "s", "e", "t">>,
    empty      |-> << >>,
    no_image   |-> <<"N", "o", " ", "i", "m", "a", "g", "e", " ", "f", "o", "u", "n", "d", " ",
                     "i", "n", " ", "r", "e", "s", "p", "o", "n", "s", "e">>,
    pillow     |-> <<"P", "i", "l", "l", "o", "w", " ", "i", "s", " ", "r", "e", "q", "u", "i",
                     "r", "e", "d">>,
    open_error |-> <<"c", "a", "n", "n", "o", "t", " ", "i", "d", "e", "n", "t", "i", "f", "y",
                     " ", "i", "m", "a", "g", "e">>,
    process_error |-> <<"P", "e", "r", "m", "i", "s", "s", "i", "o", "n", " ", "d", "e", "n",
                     "i", "e", "d">>,
    max_retry  |-> <<"M", "a", "x", "i", "m", "u", "m", " ", "r", "e", "t", "r", "y", " ",
                     "c", "o", "u", "n", "t", " ", "e", "x", "c", "e", "e", "d", "e", "d">> ]

RaisedMsgs == {"rate_limit", "blocked", "network", "empty"}

fallback_triggers ==
  << <<"4", "2", "9">>,
     <<"Q", "U", "O", "T", "A", "_", "E", "X", "C", "E", "E", "D", "E", "D">>,
     <<"R", "A", "T", "E", "_", "L", "I", "M", "I", "T">>,
     <<"R", "e", "s", "o", "u", "r", "c", "e", "E", "x", "h", "a", "u", "s", "t", "e", "d">>,
     <<"S", "A", "F", "E", "T", "Y">>,
     <<"b", "l", "o", "c", "k", "e", "d">>,
     <<"f", "i", "l", "t", "e", "r", "e", "d">>,
     <<"R", "E", "C", "I", "T", "A", "T", "I", "O", "N">>,
     <<"I", "N", "V", "A", "L", "I", "D", "_", "A", "R", "G", "U", "M", "E", "N", "T">>,
     <<"d", "o", "e", "s", " ", "n", "o", "t", " ", "s", "u", "p", "p", "o", "r", "t">>,
     <<"n", "o", "t", " ", "s", "u", "p", "p", "o", "r", "t">> >>

\* An error_message is << >> (None) or <<prefix, message>>: the stage prefix
\* generate_with_text_overlay puts before the underlying message ("" in the
\* results of generate_image).
NoError == << >>

PrefixText ==
  [ plain      |-> << >>,
    background |-> <<"B", "a", "c", "k", "g", "r", "o", "u", "n", "d", " ", "g", "e", "n",
                     "e", "r", "a", "t", "i", "o", "n", " ", "f", "a", "i", "l", "e", "d",
                     ":", " ">>,
    overlay    |-> <<"T", "e", "x", "t", " ", "o", "v", "e", "r", "l", "a", "y", " ", "f",
                     "a", "i", "l", "e", "d", ":", " ">> ]

ErrorText(error_message) == PrefixText[error_message[1]] \o MsgText[error_message[2]]

\* Variant of _should_fallback: the triggers are looked for in the message
\* as written, without lower-casing.
_should_fallback_CaseSensitive(error_message) ==
  IF error_message = NoError \/ ErrorText(error_message) = << >>
  THEN TRUE
  ELSE \E k \in 1..Len(fallback_triggers) :
         Contains(ErrorText(error_message), fallback_triggers[k])

\* _should_fallback: an absent or empty message falls back; otherwise some
\* trigger must occur in the message, both lower-cased
_should_fallback(error_message) ==
  IF error_message = NoError \/ ErrorText(error_message) = << >>
  THEN TRUE
  ELSE \E k \in 1..Len(fallback_triggers) :
         Contains(Lower(ErrorText(error_message)), Lower(fallback_triggers[k]))

\* Variant of IsRateLimit: any fallback trigger, letter case ignored, counts
\* as a rate-limit signal.
IsRateLimit_AnyTrigger(error_msg) ==
  \E k \in 1..Len(fallback_triggers) :
    Contains(Lower(MsgText[error_msg]), Lower(fallback_triggers[k]))

\* the rate-limit test of the retry loop (case-sensitive)
IsRateLimit(error_msg) ==
  \/ Contains(MsgText[error_msg], <<"4", "2", "9">>)
  \/ Contains(MsgText[error_msg],
       <<"R", "e", "s", "o", "u", "r", "c", "e", "E", "x", "h", "a", "u", "s", "t", "e", "d">>)

(* ------------------------------ inputs --------------------------------- *)
Ops == {"generate_image", "generate_with_text_overlay",
        "generate_batch", "generate_batch_with_text_overlay"}

BatchOps == {"generate_batch", "generate_batch_with_text_overlay"}

\* the three tiers, in the order generate_image tries them
Models == <<"primary_model", "fallback_model", "fallback_model_2">>

\* text_config values.  A configuration object is known by the attributes it
\* has: prompt_converter.TextOverlayConfig has the twelve fields of its
\* dataclass; a caller may also pass an object that carries the Y overrides
\* the overlay stage reads.
NoConfig == [attrs |-> {}, main_text |-> FALSE, sub_text |-> FALSE]

TextOverlayConfig ==
  [attrs |-> {"main_text", "sub_text", "position", "font_size", "font_color",
              "font_family", "shadow", "shadow_color", "shadow_offset",
              "background_box", "background_box_color", "background_box_padding"},
   main_text |-> TRUE, sub_text |-> FALSE]

ConfigWithY ==
  [attrs |-> TextOverlayConfig.attrs \cup {"main_text_y", "sub_text_y"},
   main_text |-> TRUE, sub_text |-> TRUE]

Tasks == 1..MaxBatch

(* ------------------------------- state --------------------------------- *)
VARIABLES
  op,                \* the public operation that was called
  requests,          \* the items of the call, in submission order
  concurrent_limit,  \* the limit the semaphore was built with
  use_fallback,      \* argument of generate_image
  retry_count,       \* self.retry_count
  client_ok,         \* whether `from google import genai` succeeds
  semaphore,         \* free slots of the asyncio.Semaphore
  pc,                \* where each task is suspended
  tier,              \* tier the task is at (index into Models)
  attempt,           \* loop variable of _generate_with_model
  wait,              \* argument of the asyncio.sleep the task is in
  result,            \* `result` of generate_image, then the task's return value
  temp,              \* the task's temporary location: none, dir, file, removed
  written,           \* whether the task has written at its output path
  finished,          \* tasks in the order in which they returned
  batch,             \* outcome of the batch call
  filename,          \* number in the default file name the task built, -1 before
  calls,             \* backend calls the task has made
  api_key_arg,       \* the api_key argument of GeminiImageGenerator(...)
  environ,           \* os.environ: GOOGLE_API_KEY and GEMINI_API_KEY
  generator,         \* the GeminiImageGenerator object: its state and self.api_key
  call,              \* a call of a function without side effects: name and arguments
  ret                \* whether that call has returned, and its return value

vars == <<op, requests, concurrent_limit, use_fallback, retry_count, client_ok,
          semaphore, pc, tier, attempt, wait, result, temp, written, finished, batch,
          filename, calls, api_key_arg, environ, generator, call, ret>>

params == <<op, requests, concurrent_limit, use_fallback, retry_count, client_ok,
            api_key_arg, environ, generator, call, ret>>

N == Len(requests)

NoResult == [success |-> FALSE, file_path |-> "None", prompt |-> 0,
             model_used |-> "", error_message |-> NoError]

NotReturned == [state |-> "running", total |-> 0, success_count |-> 0,
                failed_count |-> 0, results |-> << >>]

\* ImageResult(...) as the code builds it
ImageResult(success, file_path, prompt, model_used, error_message) ==
  [success |-> success, file_path |-> file_path, prompt |-> prompt,
   model_used |-> model_used, error_message |-> error_message]

\* whether task t runs the overlay pipeline: always in
\* generate_with_text_overlay, and for the items of
\* generate_batch_with_text_overlay whose text_config is truthy
UsesOverlay(t) ==
  \/ op = "generate_with_text_overlay"
  \/ op = "generate_batch_with_text_overlay" /\ requests[t].text_config # NoConfig

\* Variant of SavePath: the background is generated straight at the output path.
SavePath_AtOutputPath(t) == "output_path"

\* save_path given to generate_image: the temporary background for the
\* overlay pipeline, the output path otherwise
SavePath(t) == IF UsesOverlay(t) THEN "temp_bg_path" ELSE "output_path"

(* ------------------------------- Init ---------------------------------- *)
Request(i, cfg) == [prompt |-> i, text_config |-> cfg]

InitSingle ==
  /\ op \in {"generate_image", "generate_with_text_overlay"}
  /\ \E cfg \in (IF op = "generate_image" THEN {NoConfig}
                 ELSE {TextOverlayConfig, ConfigWithY}) :
       requests = <<Request(1, cfg)>>
  /\ concurrent_limit = 0
  /\ use_fallback \in BOOLEAN

InitBatch ==
  /\ op \in BatchOps
  /\ \E n \in 0..MaxBatch :
       requests \in [1..n -> {Request(i, cfg) :
                        i \in 1..n,
                        cfg \in (IF op = "generate_batch" THEN {NoConfig}
                                 ELSE {NoConfig, TextOverlayConfig, ConfigWithY})}]
  /\ \A i \in 1..Len(requests) : requests[i].prompt = i
  /\ concurrent_limit \in 0..MaxLimit
  /\ use_fallback = TRUE

\* the generator exists: it was built with an api_key argument
Constructed ==
  /\ api_key_arg = "key"
  /\ environ = [GOOGLE_API_KEY |-> "None", GEMINI_API_KEY |-> "None"]
  /\ generator = [state |-> "constructed", api_key |-> "key"]

\* the state in which a public operation is called, but for self.retry_count
CallState ==
  /\ (InitSingle \/ InitBatch)
  /\ client_ok \in BOOLEAN
  /\ semaphore = concurrent_limit
  /\ pc = [t \in Tasks |-> IF t <= Len(requests) THEN "waiting" ELSE "none"]
  /\ tier = [t \in Tasks |-> 1]
  /\ attempt = [t \in Tasks |-> 0]
  /\ wait = [t \in Tasks |-> 0]
  /\ result = [t \in Tasks |-> NoResult]
  /\ temp = [t \in Tasks |-> "none"]
  /\ written = [t \in Tasks |-> FALSE]
  /\ finished = << >>
  /\ batch = NotReturned
  /\ filename = [t \in Tasks |-> -1]
  /\ calls = [t \in Tasks |-> 0]

\* the state in which a public operation is called, with a positive retry count
CallInit ==
  /\ CallState
  /\ retry_count \in 1..MaxRetryCount

\* no call of a side-effect-free function is under way
NoCall ==
  /\ call = [fn |-> "none", args |-> << >>]
  /\ ret = [done |-> FALSE, value |-> << >>]

Init == CallInit /\ Constructed /\ NoCall

(* ------------------- continuations shared by the steps ----------------- *)
\* The request of task t has its outcome r.  In a batch the task then sleeps
\* RATE_LIMIT_DELAY inside the semaphore; a single call returns r at once.
RequestEnds(t, r) ==
  /\ result' = [result EXCEPT ![t] = r]
  /\ IF op \in BatchOps
     THEN /\ pc' = [pc EXCEPT ![t] = "post_delay"]
          /\ wait' = [wait EXCEPT ![t] = RATE_LIMIT_DELAY]
          /\ finished' = finished
     ELSE /\ pc' = [pc EXCEPT ![t] = "done"]
          /\ wait' = [wait EXCEPT ![t] = 0]
          /\ finished' = Append(finished, t)

\* Variant of BackgroundFailed: the failure result carries the background's
\* save path.
BackgroundFailed_WithPath(t, bg_result) ==
  ImageResult(FALSE, "temp_bg_path", requests[t].prompt, bg_result.model_used,
              <<"background", bg_result.error_message[2]>>)

\* generate_with_text_overlay after the background: a failed background is
\* returned with the stage tag, before the try/finally that cleans up
BackgroundFailed(t, bg_result) ==
  ImageResult(FALSE, "None", requests[t].prompt, bg_result.model_used,
              <<"background", bg_result.error_message[2]>>)

\* generate_image returns r to its caller
GenerateImageReturns(t, r) ==
  IF ~UsesOverlay(t)
  THEN RequestEnds(t, r)
  ELSE IF ~r.success
  THEN RequestEnds(t, BackgroundFailed(t, r))
  ELSE /\ pc' = [pc EXCEPT ![t] = "overlaying"]
       /\ result' = [result EXCEPT ![t] = r]
       /\ UNCHANGED <<wait, finished>>

\* Variant of FallbackCondition: use_fallback is not consulted.
FallbackCondition_IgnoresFlag(r) ==
  ~r.success /\ _should_fallback(r.error_message)

\* the test before each fallback tier of generate_image
FallbackCondition(r) ==
  ~r.success /\ use_fallback /\ _should_fallback(r.error_message)

\* _generate_with_model has returned r for the tier the task is at
TierEnds(t, r) ==
  IF tier[t] < NumTiers /\ FallbackCondition(r)
  THEN /\ pc' = [pc EXCEPT ![t] = "tier_delay"]
       /\ wait' = [wait EXCEPT ![t] = RATE_LIMIT_DELAY]
       /\ result' = [result EXCEPT ![t] = r]
       /\ finished' = finished
  ELSE GenerateImageReturns(t, r)

\* Variant of CanAcquire: the free-slot count is not tested.
CanAcquire_NoLimit(t) ==
  \A u \in 1..(t - 1) : pc[u] # "waiting"

\* `async with semaphore`: a task enters when a slot is free; the tasks were
\* created in submission order and asyncio wakes waiters first-in first-out
CanAcquire(t) ==
  /\ semaphore > 0
  /\ \A u \in 1..(t - 1) : pc[u] # "waiting"

(* ------------------------------ actions -------------------------------- *)
\* the number in the default file name f"image_{len(results):02d}.png" of a
\* batch item: `results` is the local list of the batch call, which stays
\* empty until gather has returned (the items of the model name no file)
DefaultNumber == Len(batch.results)

\* Task t starts, in a method of a constructed generator: it takes a slot
\* (batch), builds its file name, creates the temporary directory (overlay
\* pipeline), and enters tier 1, where _init_client raises ImportError when
\* the SDK is missing; otherwise it suspends in the first backend call, or,
\* when range(self.retry_count) is empty, the tier ends without a call in the
\* failure "Maximum retry count exceeded".
Acquire(t) ==
  /\ generator.state = "constructed"
  /\ pc[t] = "waiting"
  /\ op \in BatchOps => CanAcquire(t)
  /\ temp' = [temp EXCEPT ![t] = IF UsesOverlay(t) THEN "dir" ELSE @]
  /\ filename' = [filename EXCEPT ![t] = IF op \in BatchOps THEN DefaultNumber ELSE @]
  /\ IF ~client_ok
     THEN /\ pc' = [pc EXCEPT ![t] = "raised"]
          /\ semaphore' = semaphore
          /\ calls' = calls
          /\ UNCHANGED <<wait, result, finished>>
     ELSE IF retry_count < 1
     THEN /\ TierEnds(t, ImageResult(FALSE, "None", requests[t].prompt,
                                     Models[tier[t]], <<"plain", "max_retry">>))
          /\ semaphore' = IF op \in BatchOps THEN semaphore - 1 ELSE semaphore
          /\ calls' = calls
     ELSE /\ pc' = [pc EXCEPT ![t] = "calling"]
          /\ semaphore' = IF op \in BatchOps THEN semaphore - 1 ELSE semaphore
          /\ calls' = [calls EXCEPT ![t] = @ + 1]
          /\ UNCHANGED <<wait, result, finished>>
  /\ tier' = [tier EXCEPT ![t] = 1]
  /\ attempt' = [attempt EXCEPT ![t] = 0]
  /\ UNCHANGED <<params, written, batch>>

BackendOutcomes == {"image", "no_image"} \cup RaisedMsgs

\* Variant of BackendAnswer: an exception is retried while
\* attempt < retry_count.
BackendAnswer_OneMoreAttempt(t, outcome) ==
  /\ pc[t] = "calling"
  /\ IF outcome = "image"
     THEN /\ temp' = [temp EXCEPT ![t] = IF SavePath(t) = "temp_bg_path" THEN "file" ELSE @]
          /\ written' = [written EXCEPT ![t] = IF SavePath(t) = "output_path" THEN TRUE ELSE @]
          /\ TierEnds(t, ImageResult(TRUE, SavePath(t), requests[t].prompt,
                                     Models[tier[t]], NoError))
          /\ attempt' = [attempt EXCEPT ![t] = 0]
     ELSE IF outcome = "no_image"
     THEN /\ TierEnds(t, ImageResult(FALSE, "None", requests[t].prompt,
                                     Models[tier[t]], <<"plain", "no_image">>))
          /\ attempt' = [attempt EXCEPT ![t] = 0]
          /\ UNCHANGED <<temp, written>>
     ELSE IF attempt[t] < retry_count
     THEN /\ pc' = [pc EXCEPT ![t] = "backoff"]
          /\ wait' = [wait EXCEPT ![t] = IF IsRateLimit(outcome)
                                         THEN RATE_LIMIT_DELAY * (attempt[t] + 1)
                                         ELSE 1]
          /\ UNCHANGED <<temp, written, attempt, result, finished>>
     ELSE /\ TierEnds(t, ImageResult(FALSE, "None", requests[t].prompt,
                                     Models[tier[t]], <<"plain", outcome>>))
          /\ attempt' = [attempt EXCEPT ![t] = 0]
          /\ UNCHANGED <<temp, written>>
  /\ UNCHANGED <<params, filename, calls, semaphore, tier, batch>>

\* The backend call of task t answers.  An image is saved at save_path and
\* ends the tier with success; a response without image ends the tier with a
\* failure result; an exception is retried after a sleep while attempts
\* remain, else it ends the tier with its message.  The loop variable is
\* gone when _generate_with_model returns.
BackendAnswer(t, outcome) ==
  /\ pc[t] = "calling"
  /\ IF outcome = "image"
     THEN /\ temp' = [temp EXCEPT ![t] = IF SavePath(t) = "temp_bg_path" THEN "file" ELSE @]
          /\ written' = [written EXCEPT ![t] = IF SavePath(t) = "output_path" THEN TRUE ELSE @]
          /\ TierEnds(t, ImageResult(TRUE, SavePath(t), requests[t].prompt,
                                     Models[tier[t]], NoError))
          /\ attempt' = [attempt EXCEPT ![t] = 0]
     ELSE IF outcome = "no_image"
     THEN /\ TierEnds(t, ImageResult(FALSE, "None", requests[t].prompt,
                                     Models[tier[t]], <<"plain", "no_image">>))
          /\ attempt' = [attempt EXCEPT ![t] = 0]
          /\ UNCHANGED <<temp, written>>
     ELSE IF attempt[t] < retry_count - 1
     THEN /\ pc' = [pc EXCEPT ![t] = "backoff"]
          /\ wait' = [wait EXCEPT ![t] = IF IsRateLimit(outcome)
                                         THEN RATE_LIMIT_DELAY * (attempt[t] + 1)
                                         ELSE 1]
          /\ UNCHANGED <<temp, written, attempt, result, finished>>
     ELSE /\ TierEnds(t, ImageResult(FALSE, "None", requests[t].prompt,
                                     Models[tier[t]], <<"plain", outcome>>))
          /\ attempt' = [attempt EXCEPT ![t] = 0]
          /\ UNCHANGED <<temp, written>>
  /\ UNCHANGED <<params, filename, calls, semaphore, tier, batch>>

\* The backend call of task t does not answer.  No step of the program ends
\* the call: self.timeout is set by the constructor and read nowhere.
BackendHang(t) ==
  /\ pc[t] = "calling"
  /\ pc' = [pc EXCEPT ![t] = "hung"]
  /\ UNCHANGED <<params, filename, calls, semaphore, tier, attempt, wait, result, temp, written,
                 finished, batch>>

\* the sleep between two attempts of one tier is over: `continue`
BackoffElapsed(t) ==
  /\ pc[t] = "backoff"
  /\ pc' = [pc EXCEPT ![t] = "calling"]
  /\ attempt' = [attempt EXCEPT ![t] = @ + 1]
  /\ wait' = [wait EXCEPT ![t] = 0]
  /\ calls' = [calls EXCEPT ![t] = @ + 1]
  /\ UNCHANGED <<params, filename, semaphore, tier, result, temp, written, finished, batch>>

\* the sleep before a fallback tier is over: the next tier starts; `result`
\* is rebound by that tier and its old value is not read again
TierDelayElapsed(t) ==
  /\ pc[t] = "tier_delay"
  /\ pc' = [pc EXCEPT ![t] = "calling"]
  /\ tier' = [tier EXCEPT ![t] = @ + 1]
  /\ attempt' = [attempt EXCEPT ![t] = 0]
  /\ wait' = [wait EXCEPT ![t] = 0]
  /\ result' = [result EXCEPT ![t] = NoResult]
  /\ calls' = [calls EXCEPT ![t] = @ + 1]
  /\ UNCHANGED <<params, filename, semaphore, temp, written, finished, batch>>

(* --------------------------- overlay stage ----------------------------- *)
\* what the environment holds when the overlay stage runs
OverlayEnvs == {"no_pillow", "unreadable_image", "unwritable_output", "ok"}

OverlayDict(success, output_path, error) ==
  [raises |-> FALSE, success |-> success, output_path |-> output_path, error |-> error]

\* an exception that leaves the function
OverlayRaises ==
  [raises |-> TRUE, success |-> FALSE, output_path |-> "None", error |-> "None"]

\* TextOverlayProcessor.process: everything runs inside try/except, the file
\* is saved last
process(output_path, env) ==
  IF env = "unwritable_output"
  THEN OverlayDict(FALSE, "None", "process_error")
  ELSE OverlayDict(TRUE, output_path, "None")

\* add_text_to_existing_image: the two guarded steps return a failure dict;
\* the text elements are built outside any try, and reading main_text_y (or
\* sub_text_y when sub_text is set) of an object without that attribute
\* raises AttributeError
add_text_to_existing_image(text_config, output_path, env) ==
  IF env = "no_pillow" THEN OverlayDict(FALSE, "None", "pillow")
  ELSE IF env = "unreadable_image" THEN OverlayDict(FALSE, "None", "open_error")
  ELSE IF "main_text_y" \notin text_config.attrs THEN OverlayRaises
  ELSE IF text_config.sub_text /\ "sub_text_y" \notin text_config.attrs THEN OverlayRaises
  ELSE process(output_path, env)

\* Step 3 of generate_with_text_overlay, with its finally clause: the
\* background file and the temporary directory are removed on every way out
Overlay(t, env) ==
  /\ pc[t] = "overlaying"
  /\ LET overlay_result ==
           add_text_to_existing_image(requests[t].text_config, "output_path", env)
     IN  IF overlay_result.raises
         THEN /\ pc' = [pc EXCEPT ![t] = "raised"]
              /\ result' = [result EXCEPT ![t] = NoResult]
              /\ semaphore' = IF op \in BatchOps THEN semaphore + 1 ELSE semaphore
              /\ UNCHANGED <<wait, finished, written>>
         ELSE IF ~overlay_result.success
         THEN /\ RequestEnds(t, ImageResult(FALSE, "None", requests[t].prompt,
                                            result[t].model_used,
                                            <<"overlay", overlay_result.error>>))
              /\ UNCHANGED <<semaphore, written>>
         ELSE /\ RequestEnds(t, ImageResult(TRUE, "output_path", requests[t].prompt,
                                            result[t].model_used, NoError))
              /\ written' = [written EXCEPT ![t] = TRUE]
              /\ UNCHANGED semaphore
  /\ temp' = [temp EXCEPT ![t] = "removed"]
  /\ UNCHANGED <<params, filename, calls, tier, attempt, batch>>

(* ------------------------------- batch --------------------------------- *)
\* the sleep after the request is over: the slot is released and the task
\* returns its result
PostDelayElapsed(t) ==
  /\ pc[t] = "post_delay"
  /\ pc' = [pc EXCEPT ![t] = "done"]
  /\ wait' = [wait EXCEPT ![t] = 0]
  /\ semaphore' = semaphore + 1
  /\ finished' = Append(finished, t)
  /\ UNCHANGED <<params, filename, calls, tier, attempt, result, temp, written, batch>>

\* Variant of gather: the return values in the order of completion.
gather_AsCompleted == [i \in 1..N |-> result[finished[i]]]

\* asyncio.gather(*tasks): the return values in the order of the tasks
gather == [i \in 1..N |-> result[i]]

\* Variant of BatchResult: success_count counts every result.
BatchResult_CountsAll(results) ==
  [state |-> "returned", total |-> N, success_count |-> Len(results),
   failed_count |-> N - Len(results), results |-> results]

\* the aggregation at the end of both batch operations
BatchResult(results) ==
  LET success_count == Cardinality({i \in 1..Len(results) : results[i].success})
  IN  [state |-> "returned", total |-> N, success_count |-> success_count,
       failed_count |-> N - success_count, results |-> results]

\* every task has returned: the batch aggregates and returns
BatchReturns ==
  /\ generator.state = "constructed"
  /\ op \in BatchOps
  /\ batch.state = "running"
  /\ \A t \in 1..N : pc[t] = "done"
  /\ batch' = BatchResult(gather)
  /\ UNCHANGED <<params, filename, calls, semaphore, pc, tier, attempt, wait, result, temp, written,
                 finished>>

\* gather is called without return_exceptions: the first exception of a task
\* is raised in the batch call, which does not catch it; the other tasks are
\* not cancelled
BatchRaises ==
  /\ generator.state = "constructed"
  /\ op \in BatchOps
  /\ batch.state = "running"
  /\ \E t \in 1..N : pc[t] = "raised"
  /\ batch' = [NotReturned EXCEPT !.state = "raised"]
  /\ UNCHANGED <<params, filename, calls, semaphore, pc, tier, attempt, wait, result, temp, written,
                 finished>>

(* --------------------------- specification ----------------------------- *)
Next ==
  \/ \E t \in Tasks : Acquire(t)
  \/ \E t \in Tasks : \E outcome \in BackendOutcomes : BackendAnswer(t, outcome)
  \/ \E t \in Tasks : BackendHang(t)
  \/ \E t \in Tasks : BackoffElapsed(t)
  \/ \E t \in Tasks : TierDelayElapsed(t)
  \/ \E t \in Tasks : \E env \in OverlayEnvs : Overlay(t, env)
  \/ \E t \in Tasks : PostDelayElapsed(t)
  \/ BatchReturns
  \/ BatchRaises

Spec == Init /\ [][Next]_vars

\* one call of generate_image or generate_with_text_overlay on its own
SingleInit == Init /\ op \notin BatchOps

SingleNext ==
  \/ \E t \in Tasks : Acquire(t)
  \/ \E t \in Tasks : \E outcome \in BackendOutcomes : BackendAnswer(t, outcome)
  \/ \E t \in Tasks : BackendHang(t)
  \/ \E t \in Tasks : BackoffElapsed(t)
  \/ \E t \in Tasks : TierDelayElapsed(t)
  \/ \E t \in Tasks : \E env \in OverlayEnvs : Overlay(t, env)

SingleSpec == SingleInit /\ [][SingleNext]_vars

\* gemini.retry_count of config.yaml: << >> when the key is absent, <<n>>
\* when it is set to n
ConfigRetryCounts == {<< >>} \cup {<<n>> : n \in -1..MaxRetryCount}

\* self.retry_count = self._get_config_retry_count() or DEFAULT_RETRY_COUNT
retry_count_of(config) ==
  IF config # << >> /\ config[1] # 0 THEN config[1] ELSE DEFAULT_RETRY_COUNT

\* one call of generate_image, on a generator built with any configured
\* retry count
RetryInit ==
  /\ CallState
  /\ op = "generate_image"
  /\ \E config \in ConfigRetryCounts : retry_count = retry_count_of(config)
  /\ Constructed
  /\ NoCall

RetryNext ==
  \/ \E t \in Tasks : Acquire(t)
  \/ \E t \in Tasks : \E outcome \in BackendOutcomes : BackendAnswer(t, outcome)
  \/ \E t \in Tasks : BackendHang(t)
  \/ \E t \in Tasks : BackoffElapsed(t)
  \/ \E t \in Tasks : TierDelayElapsed(t)

RetrySpec == RetryInit /\ [][RetryNext]_vars

(* ---------------------------- construction ---------------------------- *)
\* optional strings: "None" is None (or a variable that is not set), "" is
\* the empty string; both are falsy
OptionalKeys == {"None", "", "key"}

Truthy(x) == x \notin {"None", ""}

\* the Python expression `a or b`
Or(a, b) == IF Truthy(a) THEN a ELSE b

\* Variant of _load_api_key: a missing key is returned, not raised.
_load_api_key_Deferred(env) ==
  [raises |-> FALSE, value |-> Or(env.GOOGLE_API_KEY, env.GEMINI_API_KEY)]

\* _load_api_key: GOOGLE_API_KEY, else GEMINI_API_KEY, else ValueError
_load_api_key(env) ==
  LET api_key == Or(env.GOOGLE_API_KEY, env.GEMINI_API_KEY)
  IN  IF ~Truthy(api_key)
      THEN [raises |-> TRUE, value |-> "None"]
      ELSE [raises |-> FALSE, value |-> api_key]

\* the program before GeminiImageGenerator(...) is evaluated, with the call
\* that is to follow: one image, or a batch of at most one item
CtorInit ==
  /\ CallInit
  /\ op \in {"generate_image", "generate_batch"}
  /\ Len(requests) <= 1
  /\ api_key_arg \in OptionalKeys
  /\ environ \in [GOOGLE_API_KEY : OptionalKeys, GEMINI_API_KEY : OptionalKeys]
  /\ generator = [state |-> "none", api_key |-> "None"]
  /\ NoCall

\* __init__: self.api_key = api_key or self._load_api_key() is its first
\* statement; the ValueError of _load_api_key leaves the constructor
__init__ ==
  /\ generator.state = "none"
  /\ generator' =
       IF Truthy(api_key_arg)
       THEN [state |-> "constructed", api_key |-> api_key_arg]
       ELSE LET loaded == _load_api_key(environ)
            IN  IF loaded.raises
                THEN [state |-> "ValueError", api_key |-> "None"]
                ELSE [state |-> "constructed", api_key |-> loaded.value]
  /\ UNCHANGED <<op, requests, concurrent_limit, use_fallback, retry_count, client_ok,
                 semaphore, pc, tier, attempt, wait, result, temp, written, finished,
                 batch, filename, calls, api_key_arg, environ, call, ret>>

CtorNext ==
  \/ __init__
  \/ \E t \in Tasks : Acquire(t)
  \/ \E t \in Tasks : \E outcome \in BackendOutcomes : BackendAnswer(t, outcome)
  \/ \E t \in Tasks : BackendHang(t)
  \/ \E t \in Tasks : BackoffElapsed(t)
  \/ \E t \in Tasks : TierDelayElapsed(t)
  \/ \E t \in Tasks : PostDelayElapsed(t)
  \/ BatchReturns
  \/ BatchRaises

CtorSpec == CtorInit /\ [][CtorNext]_vars

(* ------------------- functions without side effects ------------------- *)
\* no generator operation is under way
Idle ==
  /\ op = "none"
  /\ requests = << >>
  /\ concurrent_limit = 0
  /\ use_fallback = TRUE
  /\ retry_count = 1
  /\ client_ok = TRUE
  /\ semaphore = 0
  /\ pc = [t \in Tasks |-> "none"]
  /\ tier = [t \in Tasks |-> 1]
  /\ attempt = [t \in Tasks |-> 0]
  /\ wait = [t \in Tasks |-> 0]
  /\ result = [t \in Tasks |-> NoResult]
  /\ temp = [t \in Tasks |-> "none"]
  /\ written = [t \in Tasks |-> FALSE]
  /\ finished = << >>
  /\ batch = NotReturned
  /\ filename = [t \in Tasks |-> -1]
  /\ calls = [t \in Tasks |-> 0]
  /\ Constructed

\* the call `call` returns value
Return(value) ==
  /\ ~ret.done
  /\ ret' = [done |-> TRUE, value |-> value]
  /\ UNCHANGED <<op, requests, concurrent_limit, use_fallback, retry_count, client_ok,
                 semaphore, pc, tier, attempt, wait, result, temp, written, finished,
                 batch, filename, calls, api_key_arg, environ, generator, call>>

\* exact fractions for Python's float quotients
Frac(num, den) == [num |-> num, den |-> den]

Scale(q, k) == [num |-> q.num * k, den |-> q.den]

\* Variant of success_rate: the quotient is not scaled.
success_rate_Unscaled(self) ==
  IF self.total = 0 THEN Frac(0, 1)
  ELSE Frac(self.success_count, self.total)

\* BatchResult.success_rate: 0.0 for an empty batch, else
\* (success_count / total) * 100
success_rate(self) ==
  IF self.total = 0 THEN Frac(0, 1)
  ELSE Scale(Frac(self.success_count, self.total), 100)

\* the BatchResult objects the batch operations return, by their counters
BatchResults ==
  LET counters == {[total |-> n, success_count |-> k, failed_count |-> n - k] :
                     n \in 0..MaxTotal, k \in 0..MaxTotal}
  IN  {b \in counters : b.failed_count >= 0}

RateInit ==
  /\ Idle
  /\ call \in [fn : {"success_rate"}, args : BatchResults]
  /\ ret = [done |-> FALSE, value |-> << >>]

ReadSuccessRate ==
  /\ call.fn = "success_rate"
  /\ Return(success_rate(call.args))

RateNext == ReadSuccessRate

RateSpec == RateInit /\ [][RateNext]_vars

(* ----------------------- prompt_converter.py --------------------------- *)
\* Prompts are sequences of characters, built from a few tokens: a word
\* character, a comma, a space, a full stop and the word Headline.  No such
\* prompt holds a quote or the letters of "text", which each of the text
\* patterns of strip_text_instructions other than the typography, lettering
\* and headline patterns needs in order to match.
Tokens ==
  { <<"w">>, <<",">>, <<" ">>, <<".">>, <<"H", "e", "a", "d", "l", "i", "n", "e">> }

RECURSIVE Flatten(_)
Flatten(toks) == IF toks = << >> THEN << >> ELSE Head(toks) \o Flatten(Tail(toks))

TokenSeqs(n) == UNION {[1..k -> Tokens] : k \in 0..n}

Prompts == {Flatten(toks) : toks \in TokenSeqs(MaxTokens)}

\* character classes of the regular expressions
Whitespace == {" "}

Separators == {",", " "}

CommaOrStop == {",", "."}

\* length of the longest prefix of s made of characters that are in class
\* (inside = TRUE) or not in class (inside = FALSE): a greedy star
Span(s, class, inside) ==
  CHOOSE n \in 0..Len(s) :
    /\ \A i \in 1..n : (s[i] \in class) = inside
    /\ n < Len(s) => (s[n + 1] \in class) # inside

From(s, i) == SubSeq(s, i, Len(s))

\* length of the match of [,\s]*keyword[^,\.]* at the start of s, ignoring
\* case; 0 when there is none
MatchKeyword(s, keyword) ==
  LET lead == Span(s, Separators, TRUE)
      rest == From(s, lead + 1)
  IN  IF Len(rest) >= Len(keyword) /\ Lower(SubSeq(rest, 1, Len(keyword))) = keyword
      THEN lead + Len(keyword) + Span(From(rest, Len(keyword) + 1), CommaOrStop, FALSE)
      ELSE 0

\* re.sub(r'[,\s]*keyword[^,\.]*', '', s, flags=re.IGNORECASE)
RECURSIVE SubKeyword(_, _)
SubKeyword(s, keyword) ==
  IF s = << >> THEN << >>
  ELSE LET m == MatchKeyword(s, keyword)
       IN  IF m > 0 THEN SubKeyword(From(s, m + 1), keyword)
           ELSE <<Head(s)>> \o SubKeyword(Tail(s), keyword)

\* re.sub(r',\s*,', ',', s): matches do not overlap, the scan goes on after
\* the second comma of a match
RECURSIVE SubCommas(_)
SubCommas(s) ==
  IF s = << >> THEN << >>
  ELSE IF Head(s) = ","
  THEN LET blanks == Span(Tail(s), Whitespace, TRUE)
       IN  IF 1 + blanks < Len(s) /\ s[2 + blanks] = ","
           THEN <<",">> \o SubCommas(From(s, 3 + blanks))
           ELSE <<",">> \o SubCommas(Tail(s))
  ELSE <<Head(s)>> \o SubCommas(Tail(s))

\* re.sub(r'\s+', ' ', s)
RECURSIVE SubSpaces(_)
SubSpaces(s) ==
  IF s = << >> THEN << >>
  ELSE IF Head(s) \in Whitespace
  THEN <<" ">> \o SubSpaces(From(s, Span(s, Whitespace, TRUE) + 1))
  ELSE <<Head(s)>> \o SubSpaces(Tail(s))

\* re.sub(r',\s*$', '', s)
SubTrailingComma(s) ==
  LET hits == {i \in 1..Len(s) : s[i] = "," /\ \A j \in (i + 1)..Len(s) : s[j] \in Whitespace}
  IN  IF hits = {} THEN s
      ELSE SubSeq(s, 1, (CHOOSE i \in hits : \A j \in hits : i <= j) - 1)

\* re.sub(r'^\s*,', '', s)
SubLeadingComma(s) ==
  LET blanks == Span(s, Whitespace, TRUE)
  IN  IF blanks < Len(s) /\ s[blanks + 1] = "," THEN From(s, blanks + 2) ELSE s

\* str.strip()
Strip(s) ==
  LET lead == Span(s, Whitespace, TRUE)
      body == From(s, lead + 1)
      keep == CHOOSE n \in 0..Len(body) :
                /\ \A i \in (n + 1)..Len(body) : body[i] \in Whitespace
                /\ n > 0 => body[n] \notin Whitespace
  IN  SubSeq(body, 1, keep)

\* strip_text_instructions: the text patterns in the order of the list, then
\* the clean-up substitutions
strip_text_instructions(prompt) ==
  LET typography == <<"t", "y", "p", "o", "g", "r", "a", "p", "h", "y">>
      lettering  == <<"l", "e", "t", "t", "e", "r", "i", "n", "g">>
      headline   == <<"h", "e", "a", "d", "l", "i", "n", "e">>
      r1 == SubKeyword(SubKeyword(SubKeyword(prompt, typography), lettering), headline)
      r2 == SubCommas(r1)
      r3 == SubSpaces(r2)
      r4 == SubTrailingComma(r3)
      r5 == SubLeadingComma(r4)
  IN  Strip(r5)

StripInit ==
  /\ Idle
  /\ call \in [fn : {"strip_text_instructions"}, args : Prompts, pass : {1}]
  /\ ret = [done |-> FALSE, value |-> << >>]

\* strip_text_instructions(prompt) returns
StripCall ==
  /\ call.fn = "strip_text_instructions"
  /\ Return(strip_text_instructions(call.args))

\* the function is called again, on what it returned
StripAgain ==
  /\ call.fn = "strip_text_instructions"
  /\ call.pass = 1
  /\ ret.done
  /\ call' = [call EXCEPT !.args = ret.value, !.pass = 2]
  /\ ret' = [done |-> FALSE, value |-> << >>]
  /\ UNCHANGED <<op, requests, concurrent_limit, use_fallback, retry_count, client_ok,
                 semaphore, pc, tier, attempt, wait, result, temp, written, finished,
                 batch, filename, calls, api_key_arg, environ, generator>>

StripNext == StripCall \/ StripAgain

StripSpec == StripInit /\ [][StripNext]_vars

(* ------------------------ convert_to_gemini_prompt --------------------- *)
\* the prompts given to convert_to_gemini_prompt: words, blanks, an aspect
\* ratio such as 16:9, the word ratio and the word Headline (none of the
\* text patterns but the headline pattern can match in them); a guide
\* without a prompt has the empty prompt, by image_guide.get("prompt", "")
ConvertTokens ==
  { <<"w">>, <<" ">>, <<"1", "6", ":", "9">>, <<"r", "a", "t", "i", "o">>,
    <<"H", "e", "a", "d", "l", "i", "n", "e">> }

ConvertPrompts ==
  {Flatten(toks) : toks \in UNION {[1..k -> ConvertTokens] : k \in 0..MaxPromptTokens}}

Digits == {"0", "1", "2", "3", "4", "5", "6", "7", "8", "9"}

\* length of the match of \d+:\d+\s*ratio at the start of s, 0 when none
MatchRatio(s) ==
  LET width == Span(s, Digits, TRUE)
      after == From(s, width + 2)
      height == Span(after, Digits, TRUE)
      blanks == Span(From(after, height + 1), Whitespace, TRUE)
      word == IF Len(after) >= height + blanks + 5
              THEN SubSeq(after, height + blanks + 1, height + blanks + 5)
              ELSE << >>
  IN  IF /\ width > 0
         /\ width < Len(s)
         /\ s[width + 1] = ":"
         /\ height > 0
         /\ word = <<"r", "a", "t", "i", "o">>
      THEN width + 1 + height + blanks + 5
      ELSE 0

\* re.sub(r"\d+:\d+\s*ratio", "", s)
RECURSIVE SubRatio(_)
SubRatio(s) ==
  IF s = << >> THEN << >>
  ELSE LET m == MatchRatio(s)
       IN  IF m > 0 THEN SubRatio(From(s, m + 1))
           ELSE <<Head(s)>> \o SubRatio(Tail(s))

\* the style guide by the values _get_style_value finds for colour, mood
\* and format: "None" (no such key), "" or a value
StyleGuides == [{"Color", "Mood", "Format"} -> {"None", "", "value"}]

\* the fixed sentences and the translated style clauses are single symbols
BaseInstruction(background_only) ==
  IF background_only THEN <<"Create a high-quality background image ...">>
  ELSE <<"Create a high-quality image for a Korean blog.">>

QualityPhrase(background_only) ==
  IF background_only THEN <<"High resolution, ... suitable for text overlay later.">>
  ELSE <<"High resolution, professional quality, suitable for blog use.">>

\* " ".join(parts)
RECURSIVE Join(_)
Join(parts) ==
  IF parts = << >> THEN << >>
  ELSE IF Len(parts) = 1 THEN parts[1]
  ELSE parts[1] \o <<" ">> \o Join(Tail(parts))

\* step 3: the clauses of the style values that are truthy, joined
StyleParts(style_guide) ==
  (IF Truthy(style_guide["Color"]) THEN << <<"Color scheme: value">> >> ELSE << >>)
    \o (IF Truthy(style_guide["Mood"]) THEN << <<"Mood: value">> >> ELSE << >>)
    \o (IF Truthy(style_guide["Format"]) THEN << <<"Style: value">> >> ELSE << >>)

\* step 2: the prompt without its ratio, stripped of text instructions in
\* background_only mode, then strip()
CleanedPrompt(original_prompt, background_only) ==
  LET cleaned_prompt == SubRatio(original_prompt)
  IN  Strip(IF background_only THEN strip_text_instructions(cleaned_prompt)
            ELSE cleaned_prompt)

\* `if original_prompt:` is tested on the prompt as given; what is appended
\* is the prompt after cleaning
PromptPart(original_prompt, background_only) ==
  IF original_prompt # << >>
  THEN <<CleanedPrompt(original_prompt, background_only)>>
  ELSE << >>

\* convert_to_gemini_prompt: the list `parts` and the string returned
convert_to_gemini_prompt(image_guide, background_only) ==
  LET parts == <<BaseInstruction(background_only)>>
                 \o PromptPart(image_guide.prompt, background_only)
                 \o (IF StyleParts(image_guide.style_guide) # << >>
                     THEN <<Join(StyleParts(image_guide.style_guide))>> ELSE << >>)
                 \o <<QualityPhrase(background_only)>>
  IN  [parts |-> parts, text |-> Join(parts)]

ConvertInit ==
  /\ Idle
  /\ \E prompt \in ConvertPrompts, style_guide \in StyleGuides,
        background_only \in BOOLEAN :
       call = [fn |-> "convert_to_gemini_prompt",
               args |-> [image_guide |-> [prompt |-> prompt, style_guide |-> style_guide],
                         background_only |-> background_only]]
  /\ ret = [done |-> FALSE, value |-> << >>]

\* convert_to_gemini_prompt(image_guide, background_only) returns
ConvertPrompt ==
  /\ call.fn = "convert_to_gemini_prompt"
  /\ Return(convert_to_gemini_prompt(call.args.image_guide, call.args.background_only))

ConvertNext == ConvertPrompt

ConvertSpec == ConvertInit /\ [][ConvertNext]_vars

(* -------------------------- extract_text_config ------------------------ *)
\* The prompt and the Korean description are sequences of characters; a
\* Hangul syllable is one character, written by its code point.  They are
\* built from the keywords the function looks for, an upper-case keyword,
\* the space, a letter, a quotation mark and a quoted letter.
HintTokens ==
  { <<"c", "e", "n", "t", "e", "r">>,
    <<"U+C911", "U+C559">>,
    <<"U+AC00", "U+C6B4", "U+B370">>,
    <<"t", "o", "p">>,
    <<"U+C0C1", "U+B2E8">>,
    <<"U+C704">>,
    <<"b", "o", "t", "t", "o", "m">>,
    <<"U+D558", "U+B2E8">>,
    <<"U+C544", "U+B798">>,
    <<"t", "o", "p", "-", "l", "e", "f", "t">>,
    <<"U+C88C", "U+C0C1", "U+B2E8">>,
    <<"t", "o", "p", "-", "r", "i", "g", "h", "t">>,
    <<"U+C6B0", "U+C0C1", "U+B2E8">>,
    <<"b", "o", "t", "t", "o", "m", "-", "l", "e", "f", "t">>,
    <<"U+C88C", "U+D558", "U+B2E8">>,
    <<"b", "o", "t", "t", "o", "m", "-", "r", "i", "g", "h", "t">>,
    <<"U+C6B0", "U+D558", "U+B2E8">>,
    <<"T", "O", "P">>,
    <<" ">>,
    <<"x">>,
    <<"'", "x", "'">>,
    <<"'">>,
    <<"b", "o", "l", "d">>,
    <<"l", "a", "r", "g", "e">>,
    <<"s", "m", "a", "l", "l">>,
    <<"U+AD75", "U+C740">>,
    <<"U+D070">>,
    <<"U+C791", "U+C740">>,
    <<"n", "o", " ", "s", "h", "a", "d", "o", "w">>,
    <<"U+ADF8", "U+B9BC", "U+C790", " ", "U+C5C6">> }

\* the texts of n tokens
HintTexts(n) == {Flatten(toks) : toks \in [1..n -> HintTokens]}

Positions == {"center", "top", "bottom", "top-left", "top-right", "bottom-left",
              "bottom-right"}

\* the keywords of each position
position_hints ==
  [position \in Positions |->
     CASE position = "center" ->
            {<<"c", "e", "n", "t", "e", "r">>,
             <<"U+C911", "U+C559">>,
             <<"U+AC00", "U+C6B4", "U+B370">>}
       [] position = "top" ->
            {<<"t", "o", "p">>,
             <<"U+C0C1", "U+B2E8">>,
             <<"U+C704">>}
       [] position = "bottom" ->
            {<<"b", "o", "t", "t", "o", "m">>,
             <<"U+D558", "U+B2E8">>,
             <<"U+C544", "U+B798">>}
       [] position = "top-left" ->
            {<<"t", "o", "p", "-", "l", "e", "f", "t">>,
             <<"U+C88C", "U+C0C1", "U+B2E8">>}
       [] position = "top-right" ->
            {<<"t", "o", "p", "-", "r", "i", "g", "h", "t">>,
             <<"U+C6B0", "U+C0C1", "U+B2E8">>}
       [] position = "bottom-left" ->
            {<<"b", "o", "t", "t", "o", "m", "-", "l", "e", "f", "t">>,
             <<"U+C88C", "U+D558", "U+B2E8">>}
       [] position = "bottom-right" ->
            {<<"b", "o", "t", "t", "o", "m", "-", "r", "i", "g", "h", "t">>,
             <<"U+C6B0", "U+D558", "U+B2E8">>}]

\* Variant of PositionOrder: the corner groups are scanned first.
PositionOrder_CornersFirst ==
  <<"top-left", "top-right", "bottom-left", "bottom-right", "center", "top", "bottom">>

\* the order in which position_hints.items() gives the groups: the order in
\* which the dict literal lists them
PositionOrder ==
  <<"center", "top", "bottom", "top-left", "top-right", "bottom-left", "bottom-right">>

\* Variant of Combined: the text is searched as written.
Combined_AsWritten(prompt, korean_desc) == prompt \o <<" ">> \o korean_desc

\* combined_text = f"{prompt} {korean_desc}".lower()
Combined(prompt, korean_desc) == Lower(prompt \o <<" ">> \o korean_desc)

Quotes == {"'", "\""}

\* re.findall(r'["\']([^"\']+)["\']', s): the texts between two quotation
\* marks, matches not overlapping, from left to right
RECURSIVE findall(_)
findall(s) ==
  IF s = << >> THEN << >>
  ELSE LET n == Span(Tail(s), Quotes, FALSE)
       IN  IF Head(s) \in Quotes /\ n >= 1 /\ n + 2 <= Len(s)
           THEN <<SubSeq(s, 2, n + 1)>> \o findall(From(s, n + 3))
           ELSE findall(Tail(s))

\* extract_text_config: the fields of the TextOverlayConfig it returns that
\* it may set (the others keep their defaults)
extract_text_config(prompt, korean_desc) ==
  LET quoted_texts == findall(prompt)
      korean_quoted == findall(korean_desc)
      texts == IF korean_quoted # << >> THEN korean_quoted ELSE quoted_texts
      combined_text == Combined(prompt, korean_desc)
      hits == {k \in 1..Len(PositionOrder) :
                 \E kw \in position_hints[PositionOrder[k]] : Contains(combined_text, kw)}
      first == CHOOSE k \in hits : \A j \in hits : k <= j
      bold == \/ Contains(combined_text, <<"b", "o", "l", "d">>)
              \/ Contains(korean_desc, <<"U+AD75", "U+C740">>)
      large == \/ Contains(combined_text, <<"l", "a", "r", "g", "e">>)
               \/ Contains(korean_desc, <<"U+D070">>)
      small == \/ Contains(combined_text, <<"s", "m", "a", "l", "l">>)
               \/ Contains(korean_desc, <<"U+C791", "U+C740">>)
      no_shadow == \/ Contains(combined_text, <<"n", "o", " ", "s", "h", "a", "d", "o", "w">>)
                   \/ Contains(korean_desc, <<"U+ADF8", "U+B9BC", "U+C790", " ", "U+C5C6">>)
  IN  [main_text |-> IF texts # << >> THEN texts[1] ELSE << >>,
       sub_text |-> IF Len(texts) > 1 THEN texts[2] ELSE << >>,
       position |-> IF hits = {} THEN "center" ELSE PositionOrder[first],
       font_size |-> IF small THEN 32 ELSE IF large THEN 56 ELSE 48,
       shadow |-> ~no_shadow]

ExtractInit ==
  /\ Idle
  /\ \E n \in 0..MaxHints, k \in 0..MaxHints :
       /\ k <= n
       /\ call \in [fn : {"extract_text_config"},
                    args : [prompt : HintTexts(k), korean_desc : HintTexts(n - k)]]
  /\ ret = [done |-> FALSE, value |-> << >>]

\* extract_text_config(prompt, korean_desc) returns
ExtractConfig ==
  /\ call.fn = "extract_text_config"
  /\ Return(extract_text_config(call.args.prompt, call.args.korean_desc))

ExtractNext == ExtractConfig

ExtractSpec == ExtractInit /\ [][ExtractNext]_vars

(* ----------------------------- guide parser ---------------------------- *)
\* An image-guide document is a sequence of lines.  A line is known by what
\* the parser's patterns see in it:
\*   heading          ## [Image n] role
\*   heading_no_role  ## [Image n]
\*   hashes           ##
\*   legacy           [Image n] role
\*   label            [label] role
\*   bad_index        [Image x] role     (no number between the brackets)
\*   separator        a run of 20 or more box-drawing dashes
\*   text             any other text
\*   blank            an empty line
GuideIndices == {1, 2}

GuideLines ==
  {[kind |-> k, index |-> n] : k \in {"heading", "heading_no_role", "legacy"},
                               n \in GuideIndices}
    \cup {[kind |-> k, index |-> 0] :
            k \in {"hashes", "label", "bad_index", "separator", "text", "blank"}}

Documents == UNION {[1..k -> GuideLines] : k \in 0..MaxLines}

\* \s* after the end of line i runs over the line break and every blank
\* line: the number of the next line that is not blank, 0 when there is none
NextNonBlank(content, i) ==
  LET later == {j \in (i + 1)..Len(content) : content[j].kind # "blank"}
  IN  IF later = {} THEN 0 ELSE CHOOSE j \in later : \A k \in later : j <= k

\* the match of ^##\s*\[Image\s*(\d+)\]\s*(.+?)\s*$ that starts at line i:
\* the index it captures, the line its role is taken from and the last line
\* it consumes; found = FALSE when no match starts there
HeadingMatch(content, i) ==
  LET j == NextNonBlank(content, i)
      none == [found |-> FALSE, index |-> 0, header |-> i, role |-> i, last |-> i]
  IN  IF content[i].kind = "heading"
      THEN [found |-> TRUE, index |-> content[i].index, header |-> i, role |-> i,
            last |-> i]
      ELSE IF content[i].kind = "heading_no_role" /\ j # 0
      THEN [found |-> TRUE, index |-> content[i].index, header |-> i, role |-> j,
            last |-> j]
      ELSE IF content[i].kind = "hashes" /\ j # 0 /\ content[j].kind = "legacy"
      THEN [found |-> TRUE, index |-> content[j].index, header |-> i, role |-> j,
            last |-> j]
      ELSE none

\* re.search(r"^##\s*\[Image\s*\d+\]", content, MULTILINE | IGNORECASE)
HasHeading(content) ==
  \E i \in 1..Len(content) :
    \/ content[i].kind \in {"heading", "heading_no_role"}
    \/ /\ content[i].kind = "hashes"
       /\ NextNonBlank(content, i) # 0
       /\ content[NextNonBlank(content, i)].kind = "legacy"

ImageGuideItem(index, header, role) == [index |-> index, header |-> header, role |-> role]

\* _parse_image_guide_heading_format: one item per match of finditer, which
\* goes on after the last line of the match before
RECURSIVE HeadingItemsFrom(_, _)
HeadingItemsFrom(content, i) ==
  IF i > Len(content) THEN << >>
  ELSE LET match == HeadingMatch(content, i)
       IN  IF match.found
           THEN <<ImageGuideItem(match.index, match.header, match.role)>>
                  \o HeadingItemsFrom(content, match.last + 1)
           ELSE HeadingItemsFrom(content, i + 1)

_parse_image_guide_heading_format(content) == HeadingItemsFrom(content, 1)

\* _parse_image_block on the block of lines first..last: the header is looked
\* for in the first line that is not blank; None is << >>
_parse_image_block(content, first, last) ==
  LET j == NextNonBlank(content, first - 1)
  IN  IF j = 0 \/ j > last THEN << >>
      ELSE IF content[j].kind = "legacy"
      THEN <<ImageGuideItem(content[j].index, j, j)>>
      ELSE IF content[j].kind = "label"
      THEN <<ImageGuideItem(0, j, j)>>
      ELSE << >>

\* _parse_image_guide_legacy_blocks: the blocks between separator lines, in
\* order; blocks that are blank or give None add nothing
RECURSIVE LegacyItemsFrom(_, _)
LegacyItemsFrom(content, first) ==
  IF first > Len(content) THEN << >>
  ELSE LET seps == {j \in first..Len(content) : content[j].kind = "separator"}
           stop == IF seps = {} THEN Len(content) + 1
                   ELSE CHOOSE j \in seps : \A k \in seps : j <= k
       IN  _parse_image_block(content, first, stop - 1)
             \o LegacyItemsFrom(content, stop + 1)

_parse_image_guide_legacy_blocks(content) == LegacyItemsFrom(content, 1)

\* parse_image_guide_markdown, with the dialect it committed to
parse_image_guide_markdown(content) ==
  IF HasHeading(content)
  THEN [dialect |-> "heading", items |-> _parse_image_guide_heading_format(content)]
  ELSE [dialect |-> "legacy", items |-> _parse_image_guide_legacy_blocks(content)]

GuideInit ==
  /\ Idle
  /\ call \in [fn : {"parse_image_guide_markdown"}, args : Documents]
  /\ ret = [done |-> FALSE, value |-> << >>]

\* parse_image_guide_markdown(content) returns
ParseGuide ==
  /\ call.fn = "parse_image_guide_markdown"
  /\ Return(parse_image_guide_markdown(call.args))

GuideNext == ParseGuide

GuideSpec == GuideInit /\ [][GuideNext]_vars

(* ------------------------- text_overlay.py ----------------------------- *)
\* the value of each character int(x, 16) accepts as a digit
HexValue ==
  [c \in {"0", "1", "2", "3", "4", "5", "6", "7", "8", "9",
          "a", "b", "c", "d", "e", "f", "A", "B", "C", "D", "E", "F"} |->
     CASE c = "0" -> 0 [] c = "1" -> 1 [] c = "2" -> 2 [] c = "3" -> 3
       [] c = "4" -> 4 [] c = "5" -> 5 [] c = "6" -> 6 [] c = "7" -> 7
       [] c = "8" -> 8 [] c = "9" -> 9
       [] c \in {"a", "A"} -> 10 [] c \in {"b", "B"} -> 11 [] c \in {"c", "C"} -> 12
       [] c \in {"d", "D"} -> 13 [] c \in {"e", "E"} -> 14 [] c \in {"f", "F"} -> 15]

\* int(x, 16) of a two-character string: ValueError unless both are digits
int16(x) ==
  IF x[1] \in DOMAIN HexValue /\ x[2] \in DOMAIN HexValue
  THEN [raises |-> FALSE, value |-> 16 * HexValue[x[1]] + HexValue[x[2]]]
  ELSE [raises |-> TRUE, value |-> 0]

\* colour strings: an optional '#', then up to MaxHexLen characters among a
\* digit, a letter digit and a letter that is no digit; some with blanks
\* around.  None holds a '(' , which both rgb patterns of _parse_color need.
ColorChars == {"0", "F", "g"}

ColorBodies == UNION {[1..k -> ColorChars] : k \in 0..MaxHexLen}

Colors ==
  {pre \o body : pre \in {<< >>, <<"#">>}, body \in ColorBodies}
    \cup {<<" ", "#">> \o body \o <<" ">> : body \in [1..3 -> ColorChars]}

WHITE == <<255, 255, 255, 255>>

ColorTuple(rgba) == [raises |-> FALSE, value |-> rgba]

ValueError == [raises |-> TRUE, value |-> << >>]

\* the tuple of the channels, or the ValueError of the first int() that fails
Channels(parts, alpha) ==
  IF \E i \in 1..Len(parts) : int16(parts[i]).raises THEN ValueError
  ELSE ColorTuple([i \in 1..4 |-> IF i <= Len(parts) THEN int16(parts[i]).value
                                   ELSE alpha])

\* _parse_color: white for a falsy value; after strip(), '#' with 3, 6 or 8
\* characters is read with int(.., 16), outside any try; what is left goes
\* through the rgba( and rgb( patterns, which match no string of Colors,
\* and falls back to white
_parse_color(value) ==
  IF value = << >> THEN ColorTuple(WHITE)
  ELSE LET v == Strip(value)
           hex_value == Tail(v)
       IN  IF v # << >> /\ Head(v) = "#" /\ Len(hex_value) = 3
           THEN Channels([i \in 1..3 |-> <<hex_value[i], hex_value[i]>>], 255)
           ELSE IF v # << >> /\ Head(v) = "#" /\ Len(hex_value) = 6
           THEN Channels([i \in 1..3 |-> SubSeq(hex_value, 2 * i - 1, 2 * i)], 255)
           ELSE IF v # << >> /\ Head(v) = "#" /\ Len(hex_value) = 8
           THEN Channels([i \in 1..4 |-> SubSeq(hex_value, 2 * i - 1, 2 * i)], 255)
           ELSE ColorTuple(WHITE)

ColorInit ==
  /\ Idle
  /\ call \in [fn : {"_parse_color"}, args : Colors]
  /\ ret = [done |-> FALSE, value |-> << >>]

\* _parse_color(value) returns or raises
ParseColor ==
  /\ call.fn = "_parse_color"
  /\ Return(_parse_color(call.args))

ColorNext == ParseColor

ColorSpec == ColorInit /\ [][ColorNext]_vars

(* ------------------------------ _wrap_text ----------------------------- *)
\* the characters of the texts given to _wrap_text: a narrow and a wide
\* letter, the space, a tab and a line break
TextChars == {"a", "W", " ", "\t", "\n"}

Texts == UNION {[1..n -> TextChars] : n \in 0..MaxTextLen}

\* widths of the canvas, in pixels
CanvasWidths == 2..MaxCanvasWidth

\* the characters str.strip() removes and str.split() splits on
StrWhitespace == {" ", "\t", "\n"}

\* s.strip()
str_strip(s) ==
  LET lead == Span(s, StrWhitespace, TRUE)
      body == From(s, lead + 1)
      keep == CHOOSE n \in 0..Len(body) :
                /\ \A i \in (n + 1)..Len(body) : body[i] \in StrWhitespace
                /\ n > 0 => body[n] \notin StrWhitespace
  IN  SubSeq(body, 1, keep)

\* s.split(sep) for a one-character sep: the pieces between separators,
\* the empty ones included
RECURSIVE split(_, _)
split(s, sep) ==
  LET n == Span(s, {sep}, FALSE)
  IN  IF n = Len(s) THEN <<s>>
      ELSE <<SubSeq(s, 1, n)>> \o split(From(s, n + 2), sep)

\* [x for x in pieces if keep(x)], for the two filters of _wrap_text
RECURSIVE Filter(_, _)
Filter(pieces, stripped) ==
  IF pieces = << >> THEN << >>
  ELSE IF (IF stripped THEN str_strip(Head(pieces)) ELSE Head(pieces)) # << >>
  THEN <<Head(pieces)>> \o Filter(Tail(pieces), stripped)
  ELSE Filter(Tail(pieces), stripped)

\* the font: the rendered width of a string is the sum of the advances of
\* its characters
Advance == [c \in TextChars |-> IF c = "W" THEN 3 ELSE IF c = "\n" THEN 0 ELSE 1]

RECURSIVE width_of(_)
width_of(s) == IF s = << >> THEN 0 ELSE Advance[Head(s)] + width_of(Tail(s))

\* Variant of Fits: a candidate always fits.
Fits_Always(candidate, current, max_width) == TRUE

\* `width_of(candidate) <= max_width or not current`
Fits(candidate, current, max_width) ==
  width_of(candidate) <= max_width \/ current = << >>

\* the candidate line: f"{current} {word}".strip() if current else word in
\* the word loop, f"{current}{ch}" in the character loop
Candidate(current, unit, by_word) ==
  IF by_word
  THEN IF current # << >> THEN str_strip(current \o <<" ">> \o unit) ELSE unit
  ELSE current \o unit

\* the two loops of _wrap_text over the units that are left: `lines` holds
\* the lines appended so far, each with the units put on it; `current` is
\* the line being filled and `placed` its units
RECURSIVE Greedy(_, _, _, _, _, _)
Greedy(units, current, placed, lines, max_width, by_word) ==
  IF units = << >>
  THEN IF current # << >> THEN Append(lines, [line |-> current, units |-> placed])
       ELSE lines
  ELSE LET candidate == Candidate(current, Head(units), by_word)
       IN  IF Fits(candidate, current, max_width)
           THEN Greedy(Tail(units), candidate,
                       IF current = << >> THEN <<Head(units)>> ELSE Append(placed, Head(units)),
                       lines, max_width, by_word)
           ELSE Greedy(Tail(units), Head(units), <<Head(units)>>,
                       Append(lines, [line |-> current, units |-> placed]),
                       max_width, by_word)

\* the characters of text, one string each
Characters(text) == [i \in 1..Len(text) |-> <<text[i]>>]

\* _wrap_text(draw, text, font, max_width): the lines, each with its units
\* (a line of a text with line breaks is one unit)
_wrap_text(text, max_width) ==
  IF text = << >> THEN << >>
  ELSE IF \E i \in 1..Len(text) : text[i] = "\n"
  THEN LET kept == Filter(split(text, "\n"), TRUE)
       IN  [i \in 1..Len(kept) |-> [line |-> kept[i], units |-> <<kept[i]>>]]
  ELSE IF \E i \in 1..Len(text) : text[i] = " "
  THEN Greedy(Filter(split(text, " "), FALSE), << >>, << >>, << >>, max_width, TRUE)
  ELSE Greedy(Characters(text), << >>, << >>, << >>, max_width, FALSE)

\* max_width = int(width * 0.86), in TextOverlayProcessor.process
max_width_of(width) == (width * 86) \div 100

WrapInit ==
  /\ Idle
  /\ call \in [fn : {"_wrap_text"}, args : [text : Texts, width : CanvasWidths]]
  /\ ret = [done |-> FALSE, value |-> << >>]

\* process wraps the text of one element
WrapText ==
  /\ call.fn = "_wrap_text"
  /\ Return(_wrap_text(call.args.text, max_width_of(call.args.width)))

WrapNext == WrapText

WrapSpec == WrapInit /\ [][WrapNext]_vars

(* --------------------------- block of lines ---------------------------- *)
\* elem.font_size, and the heights of the bounding boxes of the wrapped
\* lines (at least one line: an element without lines is skipped)
FontSizes == 1..MaxFontSize

LineHeights == {8, 11}

LineHeightSeqs == UNION {[1..n -> LineHeights] : n \in 1..MaxLines}

\* int(x) of the non-negative product font_size * 0.18, in hundredths
int(hundredths) == hundredths \div 100

max(a, b) == IF a >= b THEN a ELSE b

RECURSIVE sum(_)
sum(s) == IF s = << >> THEN 0 ELSE Head(s) + sum(Tail(s))

\* line_spacing = max(6, int(elem.font_size * 0.18))
line_spacing(font_size) == max(6, int(font_size * 18))

\* block_height = sum(line_heights) + line_spacing * (len(lines) - 1)
block_height(line_heights, font_size) ==
  sum(line_heights) + line_spacing(font_size) * (Len(line_heights) - 1)

BlockInit ==
  /\ Idle
  /\ call \in [fn : {"process"},
               args : [font_size : FontSizes, line_heights : LineHeightSeqs]]
  /\ ret = [done |-> FALSE, value |-> << >>]

\* process measures the block of one element
MeasureBlock ==
  /\ call.fn = "process"
  /\ Return([line_spacing |-> line_spacing(call.args.font_size),
             block_height |-> block_height(call.args.line_heights, call.args.font_size)])

BlockNext == MeasureBlock

BlockSpec == BlockInit /\ [][BlockNext]_vars

\* the steps of one task
TaskStep(t) ==
  \/ Acquire(t)
  \/ \E outcome \in BackendOutcomes : BackendAnswer(t, outcome)
  \/ BackendHang(t)
  \/ BackoffElapsed(t)
  \/ TierDelayElapsed(t)
  \/ \E env \in OverlayEnvs : Overlay(t, env)
  \/ PostDelayElapsed(t)

(* ============================== claims ================================= *)
\* tasks that hold a slot: from acquiring the semaphore to releasing it
Holders ==
  {t \in 1..N : pc[t] \in {"calling", "hung", "backoff", "tier_delay",
                            "overlaying", "post_delay"}}

\* the request of task t has ended with a result
Returned(t) == pc[t] \in {"post_delay", "done"}

\* C1: in both batch operations, with a concurrency limit L >= 1, the number
\* of requests holding a slot (generating, overlaying or in the delay after
\* the request) is at most L in every reachable state.
C1_BoundedFanOut ==
  (op \in BatchOps /\ concurrent_limit >= 1)
    => Cardinality(Holders) <= concurrent_limit

\* a batch with more requests than slots: every slot is held, one request is
\* in its delay after the request, and another still waits for a slot
C1_Witness ==
  /\ op \in BatchOps
  /\ concurrent_limit >= 1
  /\ Cardinality(Holders) = concurrent_limit
  /\ \E t \in 1..N : pc[t] = "post_delay"
  /\ \E t \in 1..N : pc[t] = "waiting"

\* C2: whatever the interleaving and the order of completion, the result
\* list a batch returns has one entry per request, and entry i is the outcome
\* of request i (it carries request i's prompt and is what task i returned).
C2_ResultsInSubmissionOrder ==
  batch.state = "returned"
    => /\ Len(batch.results) = N
       /\ \A i \in 1..N :
            /\ batch.results[i].prompt = requests[i].prompt
            /\ batch.results[i] = result[i]

\* a batch has returned whose second request completed before its first
C2_Witness ==
  /\ batch.state = "returned"
  /\ N >= 2
  /\ finished[1] = 2

\* C3 (stated for limits >= 1; with limit 0 no task ever gets a slot): when
\* no backend call is left unanswered, the batch goes on until it has
\* returned a BatchResult: a state in which it has not returned is not final.
C3_BatchCompletes ==
  (op \in BatchOps /\ concurrent_limit >= 1)
    => \/ batch.state = "returned"
       \/ \E t \in 1..N : pc[t] = "hung"
       \/ ENABLED Next

\* C4: a failure of one item of a batch (backend error, missing client,
\* overlay error) never leaves the batch as an exception: no task and no
\* batch call ends by raising, and a returned batch holds every item, the
\* failed ones counted in failed_count.
C4_ItemFailuresStayInResults ==
  op \in BatchOps
    => /\ batch.state # "raised"
       /\ \A t \in 1..N : pc[t] # "raised"
       /\ batch.state = "returned"
            => /\ Len(batch.results) = N
               /\ batch.failed_count =
                    Cardinality({i \in 1..N : ~batch.results[i].success})

\* C5: generate_image tries the tiers in order; a tier is left for the next
\* only after a failure, with use_fallback set and _should_fallback true of
\* that failure's message; no call follows a success; and the result that is
\* returned is the result of the last tier tried: it names that tier's model,
\* and a failure returned before the last tier is one that does not fall back.
C5_TierOrderState ==
  \A t \in 1..N :
    /\ pc[t] = "tier_delay"
         => /\ tier[t] < NumTiers
            /\ ~result[t].success
            /\ use_fallback
            /\ _should_fallback(result[t].error_message)
            /\ result[t].model_used = Models[tier[t]]
    /\ (Returned(t) /\ ~UsesOverlay(t))
         => /\ result[t].model_used = Models[tier[t]]
            /\ (~result[t].success /\ tier[t] < NumTiers)
                 => ~(use_fallback /\ _should_fallback(result[t].error_message))

C5_TierOrderStep ==
  \A t \in 1..N :
    /\ tier'[t] # tier[t] => (tier'[t] = tier[t] + 1 /\ pc[t] = "tier_delay")
    /\ (pc[t] # "calling" /\ pc'[t] = "calling")
         => pc[t] \in {"waiting", "backoff", "tier_delay"}
    /\ result[t].success => pc'[t] \notin {"calling", "tier_delay", "backoff"}

C5_TieredFallback == []C5_TierOrderState /\ [][C5_TierOrderStep]_vars

\* a single generate_image call went through all three tiers and failed
C5_Witness ==
  /\ op = "generate_image"
  /\ pc[1] = "done"
  /\ tier[1] = NumTiers
  /\ ~result[1].success

\* C6: a backend call that does not answer is ended by the timeout and
\* handled as a failure of the tier: a task whose call has not answered
\* always has a step left to take.
C6_TimeoutEndsCall ==
  \A t \in 1..N : pc[t] = "hung" => ENABLED TaskStep(t)

\* C7 (stated with the SDK installed): generate_with_text_overlay does not
\* raise, and a failure it returns is tagged with the stage that failed.
C7_OverlayFailuresReturned ==
  (op = "generate_with_text_overlay" /\ client_ok)
    => /\ pc[1] # "raised"
       /\ (pc[1] = "done" /\ ~result[1].success)
            => result[1].error_message[1] \in {"background", "overlay"}

C9_TempRemovedOnEveryExit ==
  \A t \in 1..N :
    (UsesOverlay(t) /\ client_ok /\ pc[t] \in {"post_delay", "done", "raised"})
      => temp[t] = "removed"

\* C10: with a background that opens and a writable output path,
\* add_text_to_existing_image called with a prompt_converter.TextOverlayConfig
\* (main text set, no Y override) returns success with the requested output
\* path, and does not raise.
C10_OverlaySucceeds ==
  \A t \in 1..N :
    (pc[t] = "overlaying" /\ requests[t].text_config = TextOverlayConfig)
      => LET overlay_result ==
               add_text_to_existing_image(requests[t].text_config, "output_path", "ok")
         IN  /\ ~overlay_result.raises
             /\ overlay_result.success
             /\ overlay_result.output_path = "output_path"

\* C11: when the constructor is called with no api_key argument and neither
\* GOOGLE_API_KEY nor GEMINI_API_KEY is set, it ends with ValueError and no
\* generator exists; and after that ValueError no request is started, no
\* result is produced for any item and no batch result is returned.
C11_MissingKeyFailsAtConstruction ==
  /\ (/\ generator.state # "none"
      /\ api_key_arg = "None"
      /\ environ.GOOGLE_API_KEY = "None"
      /\ environ.GEMINI_API_KEY = "None")
       => generator.state = "ValueError"
  /\ generator.state # "constructed"
       => /\ \A t \in 1..N : pc[t] = "waiting" /\ result[t] = NoResult
          /\ batch.state = "running"
  /\ generator.state = "constructed" => Truthy(generator.api_key)

\* a batch was requested, and construction ended with ValueError for want of
\* any credential
C11_Witness ==
  /\ op = "generate_batch"
  /\ N >= 1
  /\ api_key_arg = "None"
  /\ environ.GOOGLE_API_KEY = "None"
  /\ environ.GEMINI_API_KEY = "None"
  /\ generator.state = "ValueError"

\* file_path present iff success, error_message present iff failure
WellFormed(r) ==
  /\ (r.file_path # "None") <=> r.success
  /\ (r.error_message # NoError) <=> ~r.success

\* C12: every result a request returns (from generate_image, from
\* generate_with_text_overlay, or as an item of a batch), and every entry of
\* a returned batch, has a file_path exactly when success is true and an
\* error_message exactly when success is false.
C12_PathIffSuccessErrorIffFailure ==
  /\ \A t \in 1..N : Returned(t) => WellFormed(result[t])
  /\ batch.state = "returned"
       => \A i \in 1..Len(batch.results) : WellFormed(batch.results[i])

\* an overlay batch has returned with a success and a background failure
C12_Witness ==
  /\ op = "generate_batch_with_text_overlay"
  /\ batch.state = "returned"
  /\ \E i \in 1..N : batch.results[i].success
  /\ \E i \in 1..N :
       /\ ~batch.results[i].success
       /\ batch.results[i].error_message[1] = "background"

\* C13: a BatchResult returned for N requests has total = N = number of
\* results, success_count = number of results with success = true, and
\* success_count + failed_count = total.
C13_BatchCounts ==
  batch.state = "returned"
    => /\ batch.total = N
       /\ Len(batch.results) = N
       /\ batch.success_count =
            Cardinality({i \in 1..Len(batch.results) : batch.results[i].success})
       /\ batch.success_count + batch.failed_count = batch.total

\* a batch of two has returned with one success and one failure
C13_Witness ==
  /\ batch.state = "returned"
  /\ N = 2
  /\ batch.success_count = 1
  /\ batch.failed_count = 1

\* C14 as stated: success_rate is the ratio success_count / total, a number
\* between 0 and 1 with success_rate * total = success_count, and 0 when
\* total is 0.
C14_RateIsRatio ==
  (call.fn = "success_rate" /\ ret.done)
    => /\ ret.value.num * call.args.total = call.args.success_count * ret.value.den
       /\ 0 <= ret.value.num
       /\ ret.value.num <= ret.value.den
       /\ call.args.total = 0 => ret.value.num = 0

\* C14 amended: success_rate is the percentage 100 * success_count / total,
\* a number between 0 and 100 with success_rate * total = 100 *
\* success_count, and 0 when total is 0.
C14_RateIsPercentage ==
  (call.fn = "success_rate" /\ ret.done)
    => /\ ret.value.den > 0
       /\ ret.value.num * call.args.total
            = 100 * call.args.success_count * ret.value.den
       /\ 0 <= ret.value.num
       /\ ret.value.num <= 100 * ret.value.den
       /\ call.args.total = 0 => ret.value.num = 0

\* the rate of a batch of three with two successes has been read
C14_Witness ==
  /\ call.fn = "success_rate"
  /\ ret.done
  /\ call.args.total = 3
  /\ call.args.success_count = 2

\* C15: strip_text_instructions is idempotent: called on a prompt it has
\* itself returned, it returns that prompt unchanged.
C15_StripIdempotent ==
  (call.fn = "strip_text_instructions" /\ call.pass = 2 /\ ret.done)
    => ret.value = call.args

\* the string, blanks around it aside, is '#' followed by n hexadecimal digits
IsHexForm(value, n) ==
  LET v == Strip(value)
  IN  /\ Len(v) = n + 1
      /\ v[1] = "#"
      /\ \A i \in 2..(n + 1) : v[i] \in DOMAIN HexValue

\* the number written by the two hexadecimal digits hi and lo
Byte(hi, lo) == 16 * HexValue[hi] + HexValue[lo]

\* C16: _parse_color never fails and returns an RGBA tuple for every string:
\* #RGB, #RRGGBB and #RRGGBBAA with hexadecimal digits give those components
\* (each digit of #RGB doubled, alpha 255 when absent), and every other
\* string, a '#' string of length 3, 6 or 8 with a character that is no
\* hexadecimal digit included, gives (255, 255, 255, 255).
C16_ColorParsingTotal ==
  (call.fn = "_parse_color" /\ ret.done)
    => LET v == Strip(call.args)
       IN  /\ ~ret.value.raises
           /\ IsHexForm(call.args, 3)
                => ret.value.value = <<Byte(v[2], v[2]), Byte(v[3], v[3]),
                                       Byte(v[4], v[4]), 255>>
           /\ IsHexForm(call.args, 6)
                => ret.value.value = <<Byte(v[2], v[3]), Byte(v[4], v[5]),
                                       Byte(v[6], v[7]), 255>>
           /\ IsHexForm(call.args, 8)
                => ret.value.value = <<Byte(v[2], v[3]), Byte(v[4], v[5]),
                                       Byte(v[6], v[7]), Byte(v[8], v[9])>>
           /\ (\A n \in {3, 6, 8} : ~IsHexForm(call.args, n))
                => ret.value.value = WHITE

\* the kinds of the lines of a document
Kinds(content) == {content[i].kind : i \in 1..Len(content)}

\* C17: parse_image_guide_markdown commits to one dialect for the whole
\* document: the heading dialect exactly when some line is a heading
\* '## [Image N]' (separator lines or not), the legacy dialect otherwise;
\* every item it returns comes from a header of that dialect; and a document
\* with no header line of either dialect gives the empty list.
C17_DialectSelection ==
  (call.fn = "parse_image_guide_markdown" /\ ret.done)
    => LET content == call.args
           items == ret.value.items
       IN  /\ ret.value.dialect = "heading"
                <=> Kinds(content) \cap {"heading", "heading_no_role"} # {}
           /\ ret.value.dialect = "legacy"
                <=> Kinds(content) \cap {"heading", "heading_no_role"} = {}
           /\ \A k \in 1..Len(items) :
                content[items[k].header].kind \in
                  (IF ret.value.dialect = "heading"
                   THEN {"heading", "heading_no_role"} ELSE {"legacy", "label"})
           /\ Kinds(content) \cap {"heading", "heading_no_role", "legacy", "label"} = {}
                => items = << >>

\* the first line of the legacy block that line i is in
BlockStart(content, i) ==
  LET seps == {j \in 1..(i - 1) : content[j].kind = "separator"}
  IN  IF seps = {} THEN 1 ELSE 1 + CHOOSE j \in seps : \A k \in seps : k <= j

\* line i is the first line of its legacy block that is not blank
LeadsBlock(content, i) ==
  \A j \in BlockStart(content, i)..(i - 1) : content[j].kind = "blank"

\* C18: the items come in document order, one for every header as written
\* (equal or descending indices kept): in the heading dialect every line
\* '## [Image N] role' gives an item with index N, whatever the sections
\* around it hold; in the legacy dialect every block that starts with
\* '[Image N] role' or '[label] role' gives an item, and a block that starts
\* with anything else gives none; and only a '[label]' header gives index 0
\* (no index 0 is written in a header of these documents).
C18_DocumentOrder ==
  (call.fn = "parse_image_guide_markdown" /\ ret.done)
    => LET content == call.args
           items == ret.value.items
       IN  /\ \A k \in 1..(Len(items) - 1) : items[k].header < items[k + 1].header
           /\ ret.value.dialect = "heading"
                => \A i \in 1..Len(content) :
                     content[i].kind = "heading"
                       => \E k \in 1..Len(items) :
                            items[k].header = i /\ items[k].index = content[i].index
           /\ ret.value.dialect = "legacy"
                => /\ \A i \in 1..Len(content) :
                        (content[i].kind \in {"legacy", "label"} /\ LeadsBlock(content, i))
                          => \E k \in 1..Len(items) :
                               items[k].header = i /\ items[k].index = content[i].index
                   /\ \A k \in 1..Len(items) :
                        /\ content[items[k].header].kind \in {"legacy", "label"}
                        /\ LeadsBlock(content, items[k].header)
           /\ \A k \in 1..Len(items) :
                items[k].index = 0
                  => ret.value.dialect = "legacy" /\ content[items[k].header].kind = "label"

\* s without its elements that are empty
RECURSIVE NonEmpty(_)
NonEmpty(s) ==
  IF s = << >> THEN << >>
  ELSE IF Head(s) = << >> THEN NonEmpty(Tail(s))
  ELSE <<Head(s)>> \o NonEmpty(Tail(s))

\* C19: convert_to_gemini_prompt returns the base instruction, the cleaned
\* prompt, the style sentence and the closing sentence, in that order, joined
\* by single spaces, each part that is missing or empty left out (a prompt
\* that is empty once its ratio and its text instructions are removed
\* included): no part is empty, so no two separators are adjacent.
C19_PartsInOrderNoneEmpty ==
  (call.fn = "convert_to_gemini_prompt" /\ ret.done)
    => LET image_guide == call.args.image_guide
           background_only == call.args.background_only
           cleaned == CleanedPrompt(image_guide.prompt, background_only)
           style == Join(StyleParts(image_guide.style_guide))
           expected == NonEmpty(<<BaseInstruction(background_only), cleaned, style,
                                  QualityPhrase(background_only)>>)
       IN  /\ \A k \in 1..Len(ret.value.parts) : ret.value.parts[k] # << >>
           /\ ret.value.parts = expected
           /\ ret.value.text = Join(expected)

\* some trigger substring occurs in text, letter case ignored
HasTrigger(text) ==
  \E k \in 1..Len(fallback_triggers) :
    Contains(Lower(text), Lower(fallback_triggers[k]))

\* the message of a tier's failure, as _should_fallback is given it
TierMessage(r) ==
  IF r.error_message = NoError THEN << >> ELSE MsgText[r.error_message[2]]

\* r is the failure a tier of generate_image ended with
IsTierFailure(r) ==
  /\ r # NoResult
  /\ ~r.success
  /\ r.error_message # NoError => r.error_message[1] # "overlay"

\* C20: _should_fallback is true exactly when the message is absent or
\* empty, or holds one of the trigger substrings, letter case ignored: a
\* request waits for its next tier only after such a failure, and with
\* use_fallback set such a failure before the last tier always leads there;
\* a tier failure whose message is present and holds no trigger ends the
\* request with that failure, and no tier is tried after it.
C20_FallbackState ==
  \A t \in 1..N :
    /\ pc[t] = "tier_delay"
         => (TierMessage(result[t]) = << >> \/ HasTrigger(TierMessage(result[t])))
    /\ (Returned(t) /\ IsTierFailure(result[t]) /\ tier[t] < NumTiers /\ use_fallback)
         => /\ TierMessage(result[t]) # << >>
            /\ ~HasTrigger(TierMessage(result[t]))

C20_FallbackStep ==
  \A t \in 1..N :
    /\ (pc[t] = "calling" /\ pc'[t] \notin {"calling", "backoff", "hung"}
           /\ IsTierFailure(result'[t]))
         => IF TierMessage(result'[t]) # << >> /\ ~HasTrigger(TierMessage(result'[t]))
            THEN pc'[t] \in {"post_delay", "done"} /\ tier'[t] = tier[t]
            ELSE (use_fallback /\ tier[t] < NumTiers) => pc'[t] = "tier_delay"
    /\ Returned(t)
         => tier'[t] = tier[t] /\ pc'[t] \notin {"calling", "backoff", "tier_delay"}

C20_FallbackOnTriggersOnly == []C20_FallbackState /\ [][C20_FallbackStep]_vars

\* generate_image, with use_fallback set, has returned the failure of tier 1:
\* its message ("Connection reset") holds no trigger
C20_Witness ==
  /\ op = "generate_image"
  /\ use_fallback
  /\ pc[1] = "done"
  /\ tier[1] = 1
  /\ ~result[1].success
  /\ result[1].error_message = <<"plain", "network">>

\* C21: within one tier _generate_with_model makes at most retry_count
\* backend attempts; a new attempt follows only an attempt that raised; an
\* attempt that returns a result, an image or a reported failure, ends the
\* tier at once; and when every attempt has raised, the tier's failure
\* carries the message of the last attempt, on which the fallback decision
\* is taken.
C21_AttemptsState ==
  \A t \in 1..N :
    /\ pc[t] \in {"calling", "hung"} => attempt[t] + 1 <= retry_count
    /\ pc[t] = "backoff" => attempt[t] + 1 < retry_count

C21_AttemptsStep ==
  \A t \in 1..N :
    /\ attempt'[t] = attempt[t] + 1
         => pc[t] = "backoff" /\ pc'[t] = "calling" /\ tier'[t] = tier[t]
    /\ (pc[t] \notin {"calling", "waiting"} /\ pc'[t] = "calling" /\ tier'[t] = tier[t])
         => pc[t] = "backoff"
    /\ pc'[t] = "backoff" /\ pc[t] # "backoff" => pc[t] = "calling" /\ result'[t] = result[t]
    /\ \A outcome \in BackendOutcomes :
         BackendAnswer(t, outcome)
           => IF outcome \in {"image", "no_image"}
              THEN /\ pc'[t] \notin {"calling", "backoff"}
                   /\ result'[t].success = (outcome = "image")
                   /\ result'[t].model_used = Models[tier[t]]
              ELSE IF attempt[t] + 1 < retry_count
              THEN pc'[t] = "backoff"
              ELSE /\ pc'[t] \notin {"calling", "backoff"}
                   /\ ~result'[t].success
                   /\ result'[t].error_message[2] = outcome
                   /\ pc'[t] = "tier_delay"
                        <=> /\ tier[t] < NumTiers
                            /\ use_fallback
                            /\ (MsgText[outcome] = << >> \/ HasTrigger(MsgText[outcome]))

C21_RetriesWithinTier == []C21_AttemptsState /\ [][C21_AttemptsStep]_vars

\* with more than one attempt allowed, every attempt of tier 1 raised
\* ("429 RESOURCE" at the last one) and the request waits for tier 2
C21_Witness ==
  /\ op = "generate_image"
  /\ retry_count >= 2
  /\ pc[1] = "tier_delay"
  /\ tier[1] = 1
  /\ result[1].error_message = <<"plain", "rate_limit">>

\* text holds one of the two rate-limit signals, as written
RateLimitSignal(text) ==
  \/ Contains(text, <<"4", "2", "9">>)
  \/ Contains(text, <<"R", "e", "s", "o", "u", "r", "c", "e", "E", "x", "h", "a", "u", "s",
                      "t", "e", "d">>)

\* C22: after the k-th raised attempt of a tier (k from 1, k < retry_count)
\* the sleep before the next attempt is k times RATE_LIMIT_DELAY when the
\* message holds "429" or "ResourceExhausted" and 1 otherwise; exactly one
\* such sleep lies between two consecutive attempts, and none follows the
\* last attempt of the tier.
C22_BackoffStep ==
  \A t \in 1..N :
    /\ \A outcome \in RaisedMsgs :
         BackendAnswer(t, outcome)
           => IF attempt[t] + 1 < retry_count
              THEN /\ pc'[t] = "backoff"
                   /\ wait'[t] = IF RateLimitSignal(MsgText[outcome])
                                 THEN (attempt[t] + 1) * RATE_LIMIT_DELAY
                                 ELSE 1
              ELSE pc'[t] # "backoff"
    /\ pc[t] = "backoff"
         => /\ pc'[t] \in {"backoff", "calling"}
            /\ pc'[t] = "calling" => attempt'[t] = attempt[t] + 1 /\ wait'[t] = 0
    /\ (pc[t] = "calling" /\ pc'[t] = "calling") => attempt'[t] = attempt[t]
    /\ attempt'[t] > attempt[t] => pc[t] = "backoff"

C22_Backoff == [][C22_BackoffStep]_vars

\* the second attempt of a tier raised "429 RESOURCE" with a third attempt
\* left: the task sleeps twice the rate-limit delay
C22_Witness ==
  /\ pc[1] = "backoff"
  /\ attempt[1] = 1
  /\ wait[1] = 2 * RATE_LIMIT_DELAY

\* C23: in a batch every request acquires a slot, runs to its outcome, waits
\* RATE_LIMIT_DELAY and only then releases the slot, whether it succeeded
\* or failed: a request that has started holds its slot until its delay
\* is over; and the same delay precedes every advance to the next tier.
C23_DelayStep ==
  \A t \in 1..N :
    /\ op \in BatchOps
         => /\ (pc[t] = "waiting" /\ pc'[t] # "waiting") => t \in Holders'
            /\ (t \in Holders /\ t \notin Holders')
                 => /\ pc[t] = "post_delay"
                    /\ wait[t] = RATE_LIMIT_DELAY
                    /\ semaphore' = semaphore + 1
            /\ (pc[t] # "post_delay" /\ pc'[t] = "post_delay")
                 => result'[t] # NoResult /\ wait'[t] = RATE_LIMIT_DELAY
    /\ tier'[t] # tier[t] => pc[t] = "tier_delay" /\ wait[t] = RATE_LIMIT_DELAY

C23_DelayBeforeRelease == [][C23_DelayStep]_vars

\* s.split(): the pieces of s between runs of whitespace
RECURSIVE Words(_)
Words(s) ==
  LET rest == From(s, Span(s, StrWhitespace, TRUE) + 1)
      n == Span(rest, StrWhitespace, FALSE)
  IN  IF rest = << >> THEN << >>
      ELSE <<SubSeq(rest, 1, n)>> \o Words(From(rest, n + 1))

\* the lines _wrap_text returned
Lines(value) == [i \in 1..Len(value) |-> value[i].line]

\* C24: for a text with spaces and without line break, _wrap_text returns
\* no empty line, its lines joined by single spaces are the text with its
\* whitespace normalised (runs collapsed to one space, none at the ends),
\* and a text of spaces only gives no line.
C24_WordWrapKeepsText ==
  (/\ call.fn = "_wrap_text"
   /\ ret.done
   /\ \E i \in 1..Len(call.args.text) : call.args.text[i] = " "
   /\ \A i \in 1..Len(call.args.text) : call.args.text[i] # "\n")
    => /\ \A k \in 1..Len(ret.value) : ret.value[k].line # << >>
       /\ Join(Lines(ret.value)) = Join(Words(call.args.text))
       /\ (\A i \in 1..Len(call.args.text) : call.args.text[i] = " ")
            => ret.value = << >>

\* the rendered width w is within the budget, 0.86 of the canvas width
WithinBudget(w, width) == 100 * w <= 86 * width

\* C25: in the word loop and in the character loop of _wrap_text, against
\* the budget of 0.86 of the canvas width: a line of more than one unit is
\* within the budget; a line over the budget is a single unit that is over
\* the budget by itself; and a line ends only where the next unit, added to
\* it, would have gone over the budget.
C25_GreedyWrap ==
  (/\ call.fn = "_wrap_text"
   /\ ret.done
   /\ \A i \in 1..Len(call.args.text) : call.args.text[i] # "\n")
    => LET width == call.args.width
           by_word == \E i \in 1..Len(call.args.text) : call.args.text[i] = " "
       IN  \A k \in 1..Len(ret.value) :
             /\ Len(ret.value[k].units) > 1
                  => WithinBudget(width_of(ret.value[k].line), width)
             /\ ~WithinBudget(width_of(ret.value[k].line), width)
                  => /\ ret.value[k].units = <<ret.value[k].line>>
                     /\ ~WithinBudget(width_of(ret.value[k].units[1]), width)
             /\ k < Len(ret.value)
                  => ~WithinBudget(
                        width_of(Candidate(ret.value[k].line, ret.value[k + 1].units[1],
                                           by_word)),
                        width)

\* a text was wrapped into a line of one unit that is over the budget and
\* a line of several units
C25_Witness ==
  /\ call.fn = "_wrap_text"
  /\ ret.done
  /\ \A i \in 1..Len(call.args.text) : call.args.text[i] # "\n"
  /\ \E k \in 1..Len(ret.value) :
       ~WithinBudget(width_of(ret.value[k].line), call.args.width)
  /\ \E k \in 1..Len(ret.value) : Len(ret.value[k].units) > 1

\* num / den rounded to the nearest integer, halves upwards
RoundNearest(num, den) == (2 * num + den) \div (2 * den)

\* C26: for every font size the spacing between the lines of a block is
\* max(6, round(font_size * 0.18)), rounded to the nearest integer (9 for
\* font size 48), and the height of the block is the sum of the line
\* heights plus that spacing times the number of lines less one.
C26_LineSpacingRounded ==
  (call.fn = "process" /\ ret.done)
    => LET spacing == max(6, RoundNearest(call.args.font_size * 18, 100))
       IN  /\ ret.value.line_spacing = spacing
           /\ ret.value.block_height =
                sum(call.args.line_heights) + spacing * (Len(call.args.line_heights) - 1)

\* the text the position keywords are looked for in
CombinedText == Lower(call.args.prompt \o <<" ">> \o call.args.korean_desc)

\* some keyword of the group of position occurs in text
HasHint(text, position) ==
  \E kw \in position_hints[position] : Contains(text, kw)

\* C27: extract_text_config scans the keyword groups in the order center,
\* top, bottom, top-left, top-right, bottom-left, bottom-right over the
\* lower-cased prompt and Korean description joined by a space; the first
\* group with a keyword in the text gives the position; a text with a top
\* keyword and a center keyword gives center, and so does a text without
\* any keyword.
C27_FirstGroupWins ==
  (call.fn = "extract_text_config" /\ ret.done)
    => LET order == <<"center", "top", "bottom", "top-left", "top-right",
                      "bottom-left", "bottom-right">>
       IN  /\ \A k \in 1..Len(order) :
                (/\ HasHint(CombinedText, order[k])
                 /\ \A j \in 1..(k - 1) : ~HasHint(CombinedText, order[j]))
                  => ret.value.position = order[k]
           /\ (\A k \in 1..Len(order) : ~HasHint(CombinedText, order[k]))
                => ret.value.position = "center"
           /\ (HasHint(CombinedText, "top") /\ HasHint(CombinedText, "center"))
                => ret.value.position = "center"

\* a text written TOP, with a center keyword after it, gave center
C27_Witness ==
  /\ call.fn = "extract_text_config"
  /\ ret.done
  /\ Contains(call.args.prompt, <<"T", "O", "P">>)
  /\ HasHint(CombinedText, "center")
  /\ ret.value.position = "center"

Corners == {"top-left", "top-right", "bottom-left", "bottom-right"}

\* C30: for every prompt and Korean description the position
\* extract_text_config returns is center, top or bottom, never a corner:
\* every keyword of a corner group holds a keyword of the top or of the
\* bottom group, which are scanned before it.
C30_CornersNeverSelected ==
  (call.fn = "extract_text_config" /\ ret.done)
    => /\ ret.value.position \in {"center", "top", "bottom"}
       /\ \A corner \in Corners :
            \A kw \in position_hints[corner] :
              HasHint(kw, "top") \/ HasHint(kw, "bottom")

\* a prompt asking for the bottom-right corner got the position bottom
C30_Witness ==
  /\ call.fn = "extract_text_config"
  /\ ret.done
  /\ HasHint(CombinedText, "bottom-right")
  /\ ~HasHint(CombinedText, "center")
  /\ ret.value.position = "bottom"

\* C28: in one batch any two requests that name no file are given distinct
\* default output paths, so that no two requests of the batch write at the
\* same path, in whatever order they start.
C28_DistinctDefaultPaths ==
  op \in BatchOps
    => \A t, u \in 1..N :
         (t # u /\ filename[t] # -1 /\ filename[u] # -1) => filename[t] # filename[u]

\* C29: a generate_image call on a generator whose retry count is at least 1
\* makes at least one and at most 3 * retry_count backend calls, ends in a
\* returned success or failure whenever its backend calls are all answered,
\* and never returns the failure "Maximum retry count exceeded".
C29_BoundedCalls ==
  \A t \in 1..Len(requests) :
    (op = "generate_image" /\ retry_count >= 1)
      => /\ calls[t] <= NumTiers * retry_count
         /\ pc[t] \in {"waiting", "calling", "hung", "backoff", "tier_delay", "done"}
         /\ pc[t] # "waiting" => calls[t] >= 1
         /\ pc[t] = "done" => result[t].error_message # <<"plain", "max_retry">>
         /\ pc[t] \in {"waiting", "calling", "backoff", "tier_delay"} => ENABLED RetryNext

====
